---- MODULE Spec2Model ----
(***************************************************************************)
(* Video compilation services of Text-Story-to-Reel:                       *)
(*   getAudioDuration, compileImagesToVideo, compileScenesToVideo          *)
(* (src/src/services/audioService.ts).                                     *)
(*                                                                         *)
(* Numbers are exact decimals m * 10^(-e); the value parseFloat yields for *)
(* a text that has no numeric prefix is NaN.  File names, paths and graph  *)
(* tags are strings built the way the code builds them.                    *)
(***************************************************************************)
EXTENDS Integers, Sequences, FiniteSets, TLC

VARIABLES
    mode,            \* "scenes" (compileScenesToVideo), "images" (compileImagesToVideo), "probe"
    input,           \* params.scenes / params.imageFilenames: Missing or a list
    transitionDuration, \* params.transitionDuration
    frameRate,       \* params.frameRate
    files,           \* the paths fs.access finds
    probeOf,         \* what ffprobe does for each audio path
    pc,              \* position of the job's async flow
    taskPc,          \* position of each scenes.map callback
    sceneDetails,    \* slot i of the Promise.all result
    cursor,          \* loop index of the for..of over imageFilenames
    validScenes,     \* validScenes / validImagePaths
    inputs,          \* command.input(...) calls, in order
    complexFilter,   \* the filter graph handed to command.complexFilter
    lastVideoOutputTag,
    fileContent,     \* lines of the concat list file
    listFile,        \* "none", "written", "removed"
    unlinkAttempts,  \* calls of fs.unlink(listFileName)
    spawned,         \* runs of the ffmpeg command
    outcome,         \* the promise returned to the caller
    settles,         \* resolve/reject/throw deliveries to the caller
    probeIn,         \* argument situation of a direct getAudioDuration call
    probeOut,        \* its result
    signals,         \* what the ffmpeg command has emitted, in order
    requests,        \* the generateImagesFromStory calls in progress
    audioStore       \* what each file under AUDIO_DIR holds

vars == << mode, input, transitionDuration, frameRate, files, probeOf,
           pc, taskPc, sceneDetails, cursor, validScenes, inputs,
           complexFilter, lastVideoOutputTag, fileContent, listFile,
           unlinkAttempts, spawned, outcome, settles, probeIn, probeOut,
           signals, requests, audioStore >>

----------------------------------------------------------------------------
(* Bounds *)

MaxScenes == 3

MaxLen == 3

----------------------------------------------------------------------------
(* Numbers *)

NaN == [k |-> "nan", m |-> 0, e |-> 0]

RECURSIVE Pow10(_)
Pow10(n) == IF n = 0 THEN 1 ELSE 10 * Pow10(n - 1)

RECURSIVE Dec(_, _)
Dec(m, e) ==
    IF e > 0 /\ m % 10 = 0 THEN Dec(m \div 10, e - 1)
    ELSE [k |-> "num", m |-> m, e |-> e]

MaxOf(a, b) == IF a >= b THEN a ELSE b

Add(a, b) ==
    IF a.k = "nan" \/ b.k = "nan" THEN NaN
    ELSE LET e == MaxOf(a.e, b.e)
         IN  Dec(a.m * Pow10(e - a.e) + b.m * Pow10(e - b.e), e)

Sub(a, b) ==
    IF a.k = "nan" \/ b.k = "nan" THEN NaN
    ELSE LET e == MaxOf(a.e, b.e)
         IN  Dec(a.m * Pow10(e - a.e) - b.m * Pow10(e - b.e), e)

Geq(a, b) ==
    /\ a.k = "num" /\ b.k = "num"
    /\ LET e == MaxOf(a.e, b.e)
       IN  a.m * Pow10(e - a.e) >= b.m * Pow10(e - b.e)

IsPositive(a) == a.k = "num" /\ a.m > 0

----------------------------------------------------------------------------
(* getAudioDuration *)

Digits == << "0", "1", "2", "3", "4", "5", "6", "7", "8", "9" >>

IsDigit(c) == \E d \in 1..10 : Digits[d] = c

DigitValue(c) == (CHOOSE d \in 1..10 : Digits[d] = c) - 1

RECURSIVE DigitsValue(_)
DigitsValue(s) ==
    IF s = << >> THEN 0
    ELSE 10 * DigitsValue(SubSeq(s, 1, Len(s) - 1)) + DigitValue(s[Len(s)])

\* Index of the last character of the run of digits that starts at position
\* from (from - 1 when there is none).
RECURSIVE DigitRunEnd(_, _)
DigitRunEnd(s, from) ==
    IF from <= Len(s) /\ IsDigit(s[from]) THEN DigitRunEnd(s, from + 1)
    ELSE from - 1

\* parseFloat on a text given as its characters: the longest prefix that is
\* a decimal literal (sign, digits, point, digits), NaN when there is none.
\* Leading blanks, exponents and "Infinity" are outside the alphabet used.
parseFloat(s) ==
    LET signLen == IF Len(s) >= 1 /\ s[1] \in {"-", "+"} THEN 1 ELSE 0
        sign    == IF signLen = 1 /\ s[1] = "-" THEN -1 ELSE 1
        intEnd  == DigitRunEnd(s, signLen + 1)
        hasDot  == intEnd + 1 <= Len(s) /\ s[intEnd + 1] = "."
        fracEnd == IF hasDot THEN DigitRunEnd(s, intEnd + 2) ELSE intEnd
        nInt    == intEnd - signLen
        nFrac   == IF hasDot THEN fracEnd - (intEnd + 1) ELSE 0
    IN  IF nInt + nFrac = 0 THEN NaN
        ELSE Dec(sign * DigitsValue(SubSeq(s, signLen + 1, intEnd)
                                    \o SubSeq(s, intEnd + 2, fracEnd)), nFrac)

\* What awaiting ffprobe(filePath) gives: it throws, or info has no first
\* stream, or the first stream has no duration, or it has a duration text.
ProbeThrows == [t |-> "throws", s |-> << >>]

ProbeNoStream == [t |-> "nostream", s |-> << >>]

ProbeNoDuration == [t |-> "noduration", s |-> << >>]

ProbeText(s) == [t |-> "text", s |-> s]

\* JS truthiness of info?.streams?.[0]?.duration: undefined and "" are falsy.
Truthy(p) == p.t = "text" /\ p.s # << >>

DefaultDuration == Dec(1, 0)

getAudioDuration(p) ==
    IF p.t = "throws" THEN DefaultDuration
    ELSE IF Truthy(p) THEN parseFloat(p.s)
    ELSE DefaultDuration

----------------------------------------------------------------------------
(* Paths and inputs *)

IMAGE_DIR == "outputs"

AUDIO_DIR == "outputs/audio"

VIDEO_DIR == "outputs/videos"

pathJoin(dir, name) == dir \o "/" \o name

\* The controller names the artifacts of scene k scene_k.png and scene_k.mp3.
ImageName(k) == "scene_" \o ToString(k) \o ".png"

AudioName(k) == "scene_" \o ToString(k) \o ".mp3"

SceneData(k) == [imageFilename |-> ImageName(k), audioFilename |-> AudioName(k)]

\* params.scenes and params.imageFilenames may be absent (undefined).
Missing == [given |-> FALSE, list |-> << >>]

Given(list) == [given |-> TRUE, list |-> list]

Null == [null |-> TRUE]

Pending == [pending |-> TRUE]

NoOutcome ==
    [state |-> "pending", error |-> "", detail |-> "", videoPath |-> "",
     videoFilename |-> ""]

\* resolve({ videoPath, videoFilename })
Resolved(path, name) ==
    [state |-> "resolved", error |-> "", detail |-> "", videoPath |-> path,
     videoFilename |-> name]

\* throw new Error(msg + detail) / reject(new Error(msg + detail))
Rejected(msg, detail) ==
    [state |-> "rejected", error |-> msg, detail |-> detail, videoPath |-> "",
     videoFilename |-> ""]

\* customFilename + ".mp4"
outputFilename == "story_video.mp4"

outputPath == pathJoin(VIDEO_DIR, outputFilename)

listFileName == pathJoin(VIDEO_DIR, "uuid_ffmpeg_list.txt")

----------------------------------------------------------------------------
(* compileScenesToVideo: the filter graph (lines 447-497)                  *)
(* A node is [ins, filter, ..., out]; a label in ins is an input stream of *)
(* the command ("0:v") or a tag.  JS index i is position i + 1 here.       *)

StreamRef(idx, kind) == [stream |-> TRUE, name |-> ToString(idx) \o ":" \o kind]

TagRef(tag) == [stream |-> FALSE, name |-> tag]

ImgTag(i) == "img" \o ToString(i)

outputVideoStreamTag(i) == "v" \o ToString(i)

outputAudioStreamTag(i) == "a" \o ToString(i)

\* Mutation: the transition output reuses the name of the scene's stream.
outputTagReused(i) == "v" \o ToString(i)

outputTag(i) == "vt" \o ToString(i)

\* Mutation: the image stream is numbered by the scene, not by the input.
imageInputIndexByScene(i) == i

imageInputIndex(i) == i * 2

audioInputIndex(i) == i * 2 + 1

\* command.input(scene.imagePath); command.input(scene.audioPath) per scene
RECURSIVE AddInputs(_)
AddInputs(vs) ==
    IF vs = << >> THEN << >>
    ELSE AddInputs(SubSeq(vs, 1, Len(vs) - 1))
         \o << vs[Len(vs)].imagePath, vs[Len(vs)].audioPath >>

\* The three nodes pushed for the scene at JS index i.
SceneNodes(scene, i, outputFps) ==
    << [ins |-> << StreamRef(imageInputIndex(i), "v") >>, filter |-> "scale",
        fps |-> outputFps, out |-> ImgTag(i)],
       [ins |-> << TagRef(ImgTag(i)) >>, filter |-> "trim",
        duration |-> scene.audioDuration, out |-> outputVideoStreamTag(i)],
       [ins |-> << StreamRef(audioInputIndex(i), "a") >>, filter |-> "asetpts",
        out |-> outputAudioStreamTag(i)] >>

\* validScenes.forEach((scene, i) => ...) over the first k scenes
RECURSIVE ForEachScene(_, _, _)
ForEachScene(vs, k, outputFps) ==
    IF k = 0 THEN << >>
    ELSE ForEachScene(vs, k - 1, outputFps) \o SceneNodes(vs[k], k - 1, outputFps)

\* Mutation: the tag of the first scene is not appended.
audioConcatTagsSkipFirst(vs) ==
    [k \in 1..(Len(vs) - 1) |-> TagRef(outputAudioStreamTag(k))]

\* audioConcatTags after the forEach
audioConcatTags(vs) == [k \in 1..Len(vs) |-> TagRef(outputAudioStreamTag(k - 1))]

ConcatNode(vs) ==
    [ins |-> audioConcatTags(vs), filter |-> "concat", n |-> Len(vs), out |-> "outa"]

\* Mutation: the offset is taken from the scene that fades in.
fadeOffsetOfNext(vs, i, t) == Sub(vs[i + 1].audioDuration, t)

\* validScenes[i - 1].audioDuration - transitionDuration, i a JS index >= 1
fadeOffset(vs, i, t) == Sub(vs[i].audioDuration, t)

\* currentInput when the loop is about to run iteration i
currentInput(i) == IF i <= 1 THEN "v0" ELSE outputTag(i - 1)

XfadeNode(vs, i, t) ==
    [ins |-> << TagRef(currentInput(i)), TagRef(outputVideoStreamTag(i)) >>,
     filter |-> "xfade", duration |-> t, offset |-> fadeOffset(vs, i, t),
     out |-> outputTag(i)]

\* for (let i = 1; i < validScenes.length; i++), iterations 1..k
RECURSIVE XfadeChain(_, _, _)
XfadeChain(vs, k, t) ==
    IF k <= 0 THEN << >>
    ELSE XfadeChain(vs, k - 1, t) \o << XfadeNode(vs, k, t) >>

BuildComplexFilter(vs, t, outputFps) ==
    ForEachScene(vs, Len(vs), outputFps)
    \o << ConcatNode(vs) >>
    \o XfadeChain(vs, Len(vs) - 1, t)

\* Mutation: the tag is not taken over from the loop and stays "v0".
FinalVideoTagFirst(vs) == "v0"

\* lastVideoOutputTag = currentInput after the loop
FinalVideoTag(vs) == currentInput(Len(vs))

\* totalDuration after the forEach (never read afterwards)
RECURSIVE totalDuration(_)
totalDuration(vs) ==
    IF vs = << >> THEN Dec(0, 0)
    ELSE Add(totalDuration(SubSeq(vs, 1, Len(vs) - 1)), vs[Len(vs)].audioDuration)

----------------------------------------------------------------------------
(* compileImagesToVideo: the concat list (lines 253-259) *)

\* imgPath.replace(/\//g, "/") puts a "/" where each "/" was
safePath(imgPath) == imgPath

\* 1 / frameRate for a frame rate that divides a power of ten
OneOver(f) ==
    LET k == CHOOSE j \in 0..6 : Pow10(j) % f = 0
    IN  Dec(Pow10(k) \div f, k)

RECURSIVE ListFileContent(_, _)
ListFileContent(paths, rate) ==
    IF paths = << >> THEN << >>
    ELSE ListFileContent(SubSeq(paths, 1, Len(paths) - 1), rate)
         \o << [key |-> "file", path |-> safePath(paths[Len(paths)])],
                [key |-> "duration", seconds |-> OneOver(rate)] >>

----------------------------------------------------------------------------
(* The state machine *)

DefaultTransitionDuration == Dec(5, 1)

DefaultOutputFps == 30

DefaultFrameRate == 1

ImagePath(k) == pathJoin(IMAGE_DIR, ImageName(k))

AudioPath(k) == pathJoin(AUDIO_DIR, AudioName(k))

\* Probe results met by a job: ffprobe throws, or reports 2.0, 3.0 or 1.5 s.
JobProbes ==
    { ProbeThrows, ProbeText(<< "2", ".", "0" >>), ProbeText(<< "3", ".", "0" >>),
      ProbeText(<< "1", ".", "5" >>) }

\* The artifacts of one scene on disk.  Nothing probes an audio file whose
\* scene lacks an artifact, so one probe result stands for all there.
SceneSituations ==
    { [img |-> FALSE, aud |-> FALSE, probe |-> ProbeThrows],
      [img |-> FALSE, aud |-> TRUE, probe |-> ProbeText(<< "1", ".", "5" >>)],
      [img |-> TRUE, aud |-> FALSE, probe |-> ProbeThrows] }
    \cup { [img |-> TRUE, aud |-> TRUE, probe |-> p] : p \in JobProbes }

Idle ==
    /\ pc = "call"
    /\ taskPc = << >>
    /\ sceneDetails = << >>
    /\ cursor = 0
    /\ validScenes = << >>
    /\ inputs = << >>
    /\ complexFilter = << >>
    /\ lastVideoOutputTag = ""
    /\ fileContent = << >>
    /\ listFile = "none"
    /\ unlinkAttempts = 0
    /\ spawned = 0
    /\ outcome = NoOutcome
    /\ settles = 0
    /\ signals = << >>

NoProbeCall ==
    /\ probeIn = ProbeThrows
    /\ probeOut = Pending

\* No story request is being served.
NoStory ==
    /\ requests = << >>
    /\ audioStore = << >>

InitScenes ==
    /\ mode = "scenes"
    /\ \E n \in 0..MaxScenes : \E sit \in [1..n -> SceneSituations] :
         /\ input \in { Given([k \in 1..n |-> SceneData(k)]) }
                      \cup (IF n = 0 THEN { Missing } ELSE { })
         /\ files = { ImagePath(k) : k \in { j \in 1..n : sit[j].img } }
                     \cup { AudioPath(k) : k \in { j \in 1..n : sit[j].aud } }
         /\ probeOf = [k \in 1..n |-> [path |-> AudioPath(k), result |-> sit[k].probe]]
    /\ transitionDuration \in { DefaultTransitionDuration, Dec(1, 0) }
    /\ frameRate = DefaultFrameRate
    /\ Idle
    /\ NoProbeCall
    /\ NoStory

InitImages ==
    /\ mode = "images"
    /\ \E n \in 0..MaxScenes : \E present \in SUBSET (1..n) :
         /\ input \in { Given([k \in 1..n |-> ImageName(k)]) }
                      \cup (IF n = 0 THEN { Missing } ELSE { })
         /\ files = { ImagePath(k) : k \in present }
    /\ probeOf = << >>
    /\ transitionDuration = DefaultTransitionDuration
    /\ frameRate \in { DefaultFrameRate, 2 }
    /\ Idle
    /\ NoProbeCall
    /\ NoStory

Init == InitScenes \/ InitImages

\* await fs.access(p)
access(p) == p \in files

\* await ffprobe(filePath, ...)
ffprobe(filePath) ==
    LET hit == { k \in 1..Len(probeOf) : probeOf[k].path = filePath }
    IN  IF hit = { } THEN ProbeThrows ELSE probeOf[CHOOSE k \in hit : TRUE].result

Settle(o) ==
    /\ outcome' = (IF outcome.state = "pending" THEN o ELSE outcome)
    /\ settles' = settles + 1
    /\ pc' = "settled"

\* Mutation: only the missing list is refused, the empty one is not.
NoneProvidedMissingOnly(in) == ~in.given

\* !scenes || scenes.length === 0
NoneProvided(in) == ~in.given \/ Len(in.list) = 0

NoneProvidedError ==
    IF mode = "scenes" THEN "No scenes provided for video compilation."
    ELSE "No image filenames provided for video compilation."

NoneValidError ==
    IF mode = "scenes"
    THEN "No valid scenes with existing image and audio files found."
    ELSE "None of the provided image files were found."

\* What ensureVideoOutputDir throws.
DirectoryError == "Failed to create video output directory: "

\* The call: the guard on the list, then ensureVideoOutputDir is awaited.
Call ==
    /\ pc = "call"
    /\ mode \in { "scenes", "images" }
    /\ IF NoneProvided(input)
       THEN Settle(Rejected(NoneProvidedError, ""))
       ELSE /\ pc' = "ensureDir"
            /\ UNCHANGED << outcome, settles >>
    /\ UNCHANGED << mode, input, transitionDuration, frameRate, files, probeOf,
                    taskPc, sceneDetails, cursor, validScenes, inputs,
                    complexFilter, lastVideoOutputTag, fileContent, listFile,
                    unlinkAttempts, spawned, probeIn, probeOut,
                    signals, requests, audioStore >>

\* Mutation: the guard on the survivors never fires.
NoneValidNever(vs) == FALSE

\* validScenes.length === 0 / validImagePaths.length === 0
NoneValid(vs) == Len(vs) = 0

\* After the for..of loop: the guard on validImagePaths, then the list text
\* is put together and fs.writeFile is called.
LoopExit(paths) ==
    IF NoneValid(paths)
    THEN /\ Settle(Rejected(NoneValidError, ""))
         /\ UNCHANGED fileContent
    ELSE /\ fileContent' = ListFileContent(paths, frameRate)
         /\ pc' = "writing"
         /\ UNCHANGED << outcome, settles >>

\* ensureVideoOutputDir returns or throws; on return the scene callbacks are
\* all started (scenes.map) or the loop awaits its first fs.access.
EnsureVideoOutputDir ==
    /\ pc = "ensureDir"
    /\ \E ok \in BOOLEAN :
         IF ~ok
         THEN /\ Settle(Rejected(DirectoryError, VIDEO_DIR))
              /\ UNCHANGED << taskPc, sceneDetails, cursor, fileContent >>
         ELSE /\ IF mode = "scenes"
                 THEN /\ taskPc' = [k \in 1..Len(input.list) |-> "accessImage"]
                      /\ sceneDetails' = [k \in 1..Len(input.list) |-> Pending]
                      /\ pc' = "awaitAll"
                      /\ UNCHANGED cursor
                      /\ UNCHANGED << outcome, settles, fileContent >>
                 ELSE /\ UNCHANGED << taskPc, sceneDetails >>
                      /\ IF Len(input.list) >= 1
                         THEN /\ cursor' = 1
                              /\ pc' = "loop"
                              /\ UNCHANGED << outcome, settles, fileContent >>
                         ELSE /\ UNCHANGED cursor
                              /\ LoopExit(<< >>)
    /\ UNCHANGED << mode, input, transitionDuration, frameRate, files, probeOf,
                    validScenes, inputs, complexFilter, lastVideoOutputTag,
                    listFile, unlinkAttempts, spawned, probeIn, probeOut,
                    signals, requests, audioStore >>

TaskVars ==
    << mode, input, transitionDuration, frameRate, files, probeOf, pc, cursor,
       validScenes, inputs, complexFilter, lastVideoOutputTag, fileContent,
       listFile, unlinkAttempts, spawned, outcome, settles, probeIn, probeOut,
       signals, requests, audioStore >>

\* await fs.access(imagePath) in the callback of scene k
TaskAccessImage(k) ==
    /\ pc = "awaitAll"
    /\ taskPc[k] = "accessImage"
    /\ IF access(pathJoin(IMAGE_DIR, input.list[k].imageFilename))
       THEN /\ taskPc' = [taskPc EXCEPT ![k] = "accessAudio"]
            /\ UNCHANGED sceneDetails
       ELSE /\ taskPc' = [taskPc EXCEPT ![k] = "done"]
            /\ sceneDetails' = [sceneDetails EXCEPT ![k] = Null]
    /\ UNCHANGED TaskVars

\* await fs.access(audioPath)
TaskAccessAudio(k) ==
    /\ pc = "awaitAll"
    /\ taskPc[k] = "accessAudio"
    /\ IF access(pathJoin(AUDIO_DIR, input.list[k].audioFilename))
       THEN /\ taskPc' = [taskPc EXCEPT ![k] = "probe"]
            /\ UNCHANGED sceneDetails
       ELSE /\ taskPc' = [taskPc EXCEPT ![k] = "done"]
            /\ sceneDetails' = [sceneDetails EXCEPT ![k] = Null]
    /\ UNCHANGED TaskVars

\* Mutation: every callback probes the audio of the first scene.
ProbedPathOfFirst(list, k) == pathJoin(AUDIO_DIR, list[1].audioFilename)

\* The audio path whose duration enters the details of the scene at slot k.
ProbedPath(list, k) == pathJoin(AUDIO_DIR, list[k].audioFilename)

\* { ...scene, imagePath, audioPath, audioDuration, index }
SceneDetail(list, k) ==
    [imageFilename |-> list[k].imageFilename,
     audioFilename |-> list[k].audioFilename,
     imagePath |-> pathJoin(IMAGE_DIR, list[k].imageFilename),
     audioPath |-> pathJoin(AUDIO_DIR, list[k].audioFilename),
     audioDuration |-> getAudioDuration(ffprobe(ProbedPath(list, k))),
     index |-> k - 1]

\* await getAudioDuration(audioPath), then the callback returns its details
TaskProbe(k) ==
    /\ pc = "awaitAll"
    /\ taskPc[k] = "probe"
    /\ taskPc' = [taskPc EXCEPT ![k] = "done"]
    /\ sceneDetails' = [sceneDetails EXCEPT ![k] = SceneDetail(input.list, k)]
    /\ UNCHANGED TaskVars

\* Promise.all settles when every callback has returned.
AllSettled(tp) == \A k \in 1..Len(tp) : tp[k] = "done"

\* Mutation: the survivors come out last first.
FilterBooleanReversed(details) ==
    LET kept == SelectSeq(details, LAMBDA d : d # Null)
    IN  [j \in 1..Len(kept) |-> kept[Len(kept) + 1 - j]]

\* sceneDetails.filter(Boolean)
FilterBoolean(details) == SelectSeq(details, LAMBDA d : d # Null)

\* What the renderer reports with its error signal (err.message).
Diagnostic == "ffmpeg exited with code 1"

\* What a call of the command builder throws.
BuilderError == "builder threw"

\* After Promise.all: filter, guard, inputs, graph, and the command is run.
\* The builder calls either return, and ffmpeg runs, or one throws.
ScenesContinue ==
    /\ pc = "awaitAll"
    /\ AllSettled(taskPc)
    /\ LET vs == FilterBoolean(sceneDetails)
       IN  /\ validScenes' = vs
           /\ IF NoneValid(vs)
              THEN /\ Settle(Rejected(NoneValidError, ""))
                   /\ UNCHANGED << inputs, complexFilter, lastVideoOutputTag, spawned >>
              ELSE /\ inputs' = AddInputs(vs)
                   /\ complexFilter' =
                          BuildComplexFilter(vs, transitionDuration, DefaultOutputFps)
                   /\ lastVideoOutputTag' = FinalVideoTag(vs)
                   /\ \E threw \in BOOLEAN :
                        IF threw
                        THEN /\ Settle(Rejected(BuilderError, ""))
                             /\ UNCHANGED spawned
                        ELSE /\ spawned' = spawned + 1
                             /\ pc' = "rendering"
                             /\ UNCHANGED << outcome, settles >>
    /\ UNCHANGED << mode, input, transitionDuration, frameRate, files, probeOf,
                    taskPc, sceneDetails, cursor, fileContent, listFile,
                    unlinkAttempts, probeIn, probeOut,
                    signals, requests, audioStore >>

\* One turn of the for..of loop: await fs.access(fullPath), push or warn.
\* The last turn goes on to what follows the loop.
ImageAccess ==
    /\ pc = "loop"
    /\ LET fullPath == pathJoin(IMAGE_DIR, input.list[cursor])
           paths == IF access(fullPath) THEN Append(validScenes, fullPath)
                    ELSE validScenes
       IN  /\ validScenes' = paths
           /\ IF cursor < Len(input.list)
              THEN /\ cursor' = cursor + 1
                   /\ UNCHANGED << pc, fileContent, outcome, settles >>
              ELSE /\ UNCHANGED cursor
                   /\ LoopExit(paths)
    /\ UNCHANGED << mode, input, transitionDuration, frameRate, files, probeOf,
                    taskPc, sceneDetails, inputs, complexFilter,
                    lastVideoOutputTag, listFile, unlinkAttempts, spawned,
                    probeIn, probeOut,
                    signals, requests, audioStore >>

\* fs.writeFile settles.  Fulfilled: the then-callback builds and runs the
\* command; what it throws goes to the catch that follows, as a failed
\* write does.
WriteDone ==
    /\ pc = "writing"
    /\ \E written \in BOOLEAN, threw \in BOOLEAN :
         IF ~written
         THEN /\ ~threw
              /\ Settle(Rejected("Failed to write ffmpeg list file: ", "EACCES"))
              /\ UNCHANGED << listFile, inputs, spawned >>
         ELSE /\ listFile' = "written"
              /\ inputs' = << listFileName >>
              /\ IF threw
                 THEN /\ Settle(Rejected("Failed to write ffmpeg list file: ",
                                         BuilderError))
                      /\ UNCHANGED spawned
                 ELSE /\ spawned' = spawned + 1
                      /\ pc' = "rendering"
                      /\ UNCHANGED << outcome, settles >>
    /\ UNCHANGED << mode, input, transitionDuration, frameRate, files, probeOf,
                    taskPc, sceneDetails, cursor, validScenes, complexFilter,
                    lastVideoOutputTag, fileContent, unlinkAttempts, probeIn,
                    probeOut,
                    signals, requests, audioStore >>

RenderVars ==
    << mode, input, transitionDuration, frameRate, files, probeOf, taskPc,
       sceneDetails, cursor, validScenes, inputs, complexFilter,
       lastVideoOutputTag, fileContent, spawned, probeIn, probeOut,
       requests, audioStore >>

\* .on("start"): the command line is logged.  ffmpeg has been spawned.
RendererStart ==
    /\ pc = "rendering"
    /\ signals = << >>
    /\ signals' = << "start" >>
    /\ UNCHANGED << pc, listFile, unlinkAttempts, outcome, settles >>
    /\ UNCHANGED RenderVars

\* .on("end"): scenes mode resolves; images mode first awaits fs.unlink.
\* The command emits "end" when the process it spawned has exited.
RendererEnd ==
    /\ pc = "rendering"
    /\ signals = << "start" >>
    /\ signals' = Append(signals, "end")
    /\ IF mode = "scenes"
       THEN /\ Settle(Resolved(outputPath, outputFilename))
            /\ UNCHANGED unlinkAttempts
       ELSE /\ unlinkAttempts' = unlinkAttempts + 1
            /\ pc' = "endUnlink"
            /\ UNCHANGED << outcome, settles >>
    /\ UNCHANGED listFile
    /\ UNCHANGED RenderVars

\* Mutation: on the "error" signal the command is run once more.
RendererErrorRetry ==
    /\ pc = "rendering"
    /\ spawned < 3
    /\ signals' = Append(signals, "error")
    /\ spawned' = spawned + 1
    /\ UNCHANGED << mode, input, transitionDuration, frameRate, files, probeOf,
                    pc, taskPc, sceneDetails, cursor, validScenes, inputs,
                    complexFilter, lastVideoOutputTag, fileContent, listFile,
                    unlinkAttempts, outcome, settles, probeIn, probeOut,
                    requests, audioStore >>

\* .on("error"): scenes mode rejects; images mode first awaits fs.unlink.
\* The command emits "error" when it cannot spawn ffmpeg or ffmpeg fails.
RendererError ==
    /\ pc = "rendering"
    /\ signals' = Append(signals, "error")
    /\ IF mode = "scenes"
       THEN /\ Settle(Rejected("ffmpeg complex filter failed: ", Diagnostic))
            /\ UNCHANGED unlinkAttempts
       ELSE /\ unlinkAttempts' = unlinkAttempts + 1
            /\ pc' = "errorUnlink"
            /\ UNCHANGED << outcome, settles >>
    /\ UNCHANGED listFile
    /\ UNCHANGED RenderVars

\* Mutation: a deletion that fails is what the job is rejected with.
UnlinkDoneMasking ==
    /\ pc \in { "endUnlink", "errorUnlink" }
    /\ \E removed \in BOOLEAN :
         /\ listFile' = (IF removed THEN "removed" ELSE listFile)
         /\ IF ~removed
            THEN Settle(Rejected("Could not delete temp file ", listFileName))
            ELSE IF pc = "endUnlink"
                 THEN Settle(Resolved(outputPath, outputFilename))
                 ELSE Settle(Rejected("ffmpeg failed: ", Diagnostic))
    /\ UNCHANGED << unlinkAttempts, signals >>
    /\ UNCHANGED RenderVars

\* fs.unlink(listFileName) settles (a failure is only warned about), then
\* the handler resolves or rejects.
UnlinkDone ==
    /\ pc \in { "endUnlink", "errorUnlink" }
    /\ \E removed \in BOOLEAN :
         listFile' = (IF removed THEN "removed" ELSE listFile)
    /\ IF pc = "endUnlink"
       THEN Settle(Resolved(outputPath, outputFilename))
       ELSE Settle(Rejected("ffmpeg failed: ", Diagnostic))
    /\ UNCHANGED << unlinkAttempts, signals >>
    /\ UNCHANGED RenderVars

Next ==
    \/ Call
    \/ EnsureVideoOutputDir
    \/ \E k \in 1..Len(taskPc) : TaskAccessImage(k)
    \/ \E k \in 1..Len(taskPc) : TaskAccessAudio(k)
    \/ \E k \in 1..Len(taskPc) : TaskProbe(k)
    \/ ScenesContinue
    \/ ImageAccess
    \/ WriteDone
    \/ RendererStart
    \/ RendererEnd
    \/ RendererError
    \/ UnlinkDone

Spec == Init /\ [][Next]_vars

----------------------------------------------------------------------------
(* getAudioDuration called on its own, for every probe result *)

Alphabet == { "0", "1", "5", ".", "N" }

Texts == UNION { [1..n -> Alphabet] : n \in 0..MaxLen }

ProbeResults ==
    { ProbeThrows, ProbeNoStream, ProbeNoDuration } \cup { ProbeText(s) : s \in Texts }

InitProbe ==
    /\ mode = "probe"
    /\ input = Missing
    /\ files = { }
    /\ probeOf = << >>
    /\ transitionDuration = DefaultTransitionDuration
    /\ frameRate = DefaultFrameRate
    /\ Idle
    /\ probeIn \in ProbeResults
    /\ probeOut = Pending
    /\ NoStory

ProbeCall ==
    /\ mode = "probe"
    /\ probeOut = Pending
    /\ probeOut' = getAudioDuration(probeIn)
    /\ UNCHANGED << mode, input, transitionDuration, frameRate, files, probeOf,
                    pc, taskPc, sceneDetails, cursor, validScenes, inputs,
                    complexFilter, lastVideoOutputTag, fileContent, listFile,
                    unlinkAttempts, spawned, outcome, settles, probeIn,
                    signals, requests, audioStore >>

NextProbe == ProbeCall

SpecProbe == InitProbe /\ [][NextProbe]_vars

----------------------------------------------------------------------------
(* generateImagesFromStory (storyController.ts): two requests in flight on *)
(* one server.  A request yields at every await, so the steps of the two   *)
(* interleave.  requests[r] holds the handler's locals; audioStore is the  *)
(* content of AUDIO_DIR by file name.  compileScenesToVideo, modelled in   *)
(* full above, is taken here by the audio files it reads (lines 416-422).  *)

Requests == { "A", "B" }

\* The audio content the speech service returns for a scene of a request.
AudioContent(r, k) == [request |-> r, sceneIndex |-> k]

\* `${uuidv4()}`-named image of saveImageToFile: fresh for every call.
savedImage(r, k) == "uuid_" \o r \o "_" \o ToString(k) \o ".png"

\* const baseFilename = `scene_${sceneIndex}`
baseFilename(sceneIndex) == "scene_" \o ToString(sceneIndex)

\* synthesizeSpeech: outputFilename = `${customFilename}.mp3`
speechFilename(customFilename) == customFilename \o ".mp3"

\* fs.writeFile(path, content): creates or replaces the file.
writeFile(store, path, content) ==
    [f \in DOMAIN store \cup { path } |-> IF f = path THEN content ELSE store[f]]

NewRequest ==
    [pc |-> "received", scenes |-> 0, sceneIndex |-> 0,
     currentImageFilename |-> "", videoSceneData |-> << >>,
     synthesized |-> << >>, compiled |-> << >>]

InitStory ==
    /\ mode = "story"
    /\ input = Missing
    /\ files = { }
    /\ probeOf = << >>
    /\ transitionDuration = DefaultTransitionDuration
    /\ frameRate = DefaultFrameRate
    /\ Idle
    /\ NoProbeCall
    /\ requests = [r \in Requests |-> NewRequest]
    /\ audioStore = << >>

PipelineVars == << mode, input, transitionDuration, frameRate, files, probeOf,
                  pc, taskPc, sceneDetails, cursor, validScenes, inputs,
                  complexFilter, lastVideoOutputTag, fileContent, listFile,
                  unlinkAttempts, spawned, outcome, settles, probeIn,
                  probeOut, signals >>

\* Lines 31-51: the guards, then splitStoryIntoScenes, which may throw.
SplitStory(r) ==
    /\ mode = "story"
    /\ requests[r].pc = "received"
    /\ \/ requests' = [requests EXCEPT ![r].pc = "failed"]
       \/ \E n \in 0..MaxScenes :
             requests' = [requests EXCEPT ![r].pc = "loop", ![r].scenes = n]
    /\ UNCHANGED << PipelineVars, audioStore >>

\* Lines 52-75: next scene; the image is generated and saved, or a step
\* throws and the catch of lines 93-105 ends the iteration.
SceneImage(r) ==
    LET q == requests[r]
        k == q.sceneIndex + 1
    IN  /\ mode = "story"
        /\ q.pc = "loop"
        /\ q.sceneIndex < q.scenes
        /\ \/ requests' = [requests EXCEPT ![r].sceneIndex = k,
                                            ![r].currentImageFilename = ""]
           \/ requests' = [requests EXCEPT ![r].sceneIndex = k,
                                            ![r].currentImageFilename = savedImage(r, k),
                                            ![r].pc = "audio"]
        /\ UNCHANGED << PipelineVars, audioStore >>

\* Lines 77-92 with synthesizeSpeech (audioService.ts 50-100): the service
\* call throws, or the audio is written under AUDIO_DIR and the scene is
\* pushed to videoSceneData.
SceneAudio(r) ==
    LET q == requests[r]
        k == q.sceneIndex
        audioFile == speechFilename(baseFilename(k))
    IN  /\ mode = "story"
        /\ q.pc = "audio"
        /\ \/ /\ requests' = [requests EXCEPT ![r].pc = "loop"]
              /\ UNCHANGED audioStore
           \/ /\ audioStore' = writeFile(audioStore,
                                         pathJoin(AUDIO_DIR, audioFile),
                                         AudioContent(r, k))
              /\ requests' =
                   [requests EXCEPT
                      ![r].pc = "loop",
                      ![r].videoSceneData =
                          Append(@, [imageFilename |-> q.currentImageFilename,
                                     audioFilename |-> audioFile]),
                      ![r].synthesized = Append(@, AudioContent(r, k))]
        /\ UNCHANGED PipelineVars

\* Lines 116-122 and 143-148: after the loop the video is compiled if any
\* scene has both artifacts, else the response is sent.
LoopDone(r) ==
    LET q == requests[r]
    IN  /\ mode = "story"
        /\ q.pc = "loop"
        /\ q.sceneIndex = q.scenes
        /\ requests' = [requests EXCEPT
                          ![r].pc = IF Len(q.videoSceneData) > 0
                                    THEN "compiling" ELSE "responded"]
        /\ UNCHANGED << PipelineVars, audioStore >>

\* Lines 123-148: compileScenesToVideo reads, for each scene,
\* path.join(AUDIO_DIR, scene.audioFilename); then the response is sent.
CompileRead(r) ==
    LET q == requests[r]
    IN  /\ mode = "story"
        /\ q.pc = "compiling"
        /\ requests' =
             [requests EXCEPT
                ![r].pc = "responded",
                ![r].compiled =
                    [j \in 1..Len(q.videoSceneData) |->
                        audioStore[pathJoin(AUDIO_DIR,
                                            q.videoSceneData[j].audioFilename)]]]
        /\ UNCHANGED << PipelineVars, audioStore >>

NextStory ==
    \E r \in Requests :
        \/ SplitStory(r)
        \/ SceneImage(r)
        \/ SceneAudio(r)
        \/ LoopDone(r)
        \/ CompileRead(r)

SpecStory == InitStory /\ [][NextStory]_vars

----------------------------------------------------------------------------
(* Properties *)

Settled == pc = "settled"

Raised(msg) == outcome.state = "rejected" /\ outcome.error = msg

\* Entry k of the input resolves: its artifacts are on disk.
Resolvable(k) ==
    IF mode = "scenes"
    THEN /\ (IMAGE_DIR \o "/" \o input.list[k].imageFilename) \in files
         /\ (AUDIO_DIR \o "/" \o input.list[k].audioFilename) \in files
    ELSE (IMAGE_DIR \o "/" \o input.list[k]) \in files

EmptyInput == ~input.given \/ input.list = << >>

AllFail == ~EmptyInput /\ \A k \in 1..Len(input.list) : ~Resolvable(k)

SomeResolvable == ~EmptyInput /\ \E k \in 1..Len(input.list) : Resolvable(k)

\* C1 (as stated): in both compile modes the "no scenes provided" error is
\* raised iff the input list is missing or empty, the "no valid scenes"
\* error is raised iff the list is non-empty and every entry fails
\* resolution, and with a resolvable entry neither is raised.
C1_ErrorsIffInputOnly ==
    /\ Raised(NoneProvidedError) => EmptyInput
    /\ Raised(NoneValidError) => AllFail
    /\ Settled /\ EmptyInput => Raised(NoneProvidedError)
    /\ Settled /\ AllFail => Raised(NoneValidError)
    /\ SomeResolvable => ~Raised(NoneProvidedError) /\ ~Raised(NoneValidError)

\* C1 (amended): as above, but the "no valid scenes" error is raised iff the
\* list is non-empty, every entry fails resolution and ensureVideoOutputDir
\* did not throw; when it throws, its directory error is what is raised.
C1_ErrorsIff ==
    /\ Raised(NoneProvidedError) => EmptyInput
    /\ Raised(NoneValidError) => AllFail
    /\ Settled /\ EmptyInput => Raised(NoneProvidedError)
    /\ Settled /\ AllFail =>
         IF Raised(DirectoryError) THEN TRUE ELSE Raised(NoneValidError)
    /\ Raised(DirectoryError) => ~EmptyInput
    /\ SomeResolvable => ~Raised(NoneProvidedError) /\ ~Raised(NoneValidError)

\* A job of two entries, none resolvable, has ended with "no valid scenes".
C1_Witness ==
    /\ Settled
    /\ Len(input.list) = 2
    /\ AllFail
    /\ Raised(NoneValidError)

\* C2 (as stated): in compileImagesToVideo, once the list file has been
\* written the job does not settle before fs.unlink was called on it.
C2_UnlinkBeforeSettle ==
    mode = "images" /\ listFile # "none" /\ outcome.state # "pending"
        => unlinkAttempts >= 1

\* The graph of a compileScenesToVideo job has been built.
GraphBuilt == mode = "scenes" /\ complexFilter # << >>

NodesOf(graph, kind) == SelectSeq(graph, LAMBDA node : node.filter = kind)

Durations == [j \in 1..Len(validScenes) |-> validScenes[j].audioDuration]

AllNumeric(ds) == \A j \in 1..Len(ds) : ds[j].k = "num"

\* C3: with n valid scenes of numeric durations d_0..d_{n-1} and transition
\* t, the graph has n - 1 crossfade nodes and the i-th carries the offset
\* d_{i-1} - t, the duration of the (i-1)-th surviving scene alone; the
\* durations 2.0, 3.0, 1.5 with t = 0.5 give the offsets 1.5 and 2.5.
C3_FadeOffsets ==
    GraphBuilt /\ AllNumeric(Durations) =>
        LET fades == NodesOf(complexFilter, "xfade")
        IN  /\ Len(fades) = Len(validScenes) - 1
            /\ \A i \in 1..Len(fades) :
                 /\ fades[i].offset = Sub(Durations[i], transitionDuration)
                 /\ fades[i].duration = transitionDuration
            /\ (/\ Durations = << Dec(2, 0), Dec(3, 0), Dec(15, 1) >>
                /\ transitionDuration = Dec(5, 1))
               => /\ Len(fades) = 2
                  /\ fades[1].offset = Dec(15, 1)
                  /\ fades[2].offset = Dec(25, 1)

\* Scenario B: three surviving scenes of 2.0, 3.0 and 1.5 s, t = 0.5.
C3_Witness ==
    /\ GraphBuilt
    /\ Durations = << Dec(2, 0), Dec(3, 0), Dec(15, 1) >>
    /\ transitionDuration = Dec(5, 1)
    /\ Len(NodesOf(complexFilter, "xfade")) = 2

\* Length of the stream a tag names: a trimmed image lasts its trim
\* duration, a crossfade lasts its offset plus the length of its second input.
RECURSIVE StreamLength(_, _)
StreamLength(graph, tag) ==
    LET made == { j \in 1..Len(graph) : graph[j].out = tag }
        node == graph[CHOOSE j \in made : TRUE]
    IN  IF made = { } THEN NaN
        ELSE IF node.filter = "trim" THEN node.duration
        ELSE IF node.filter = "xfade"
             THEN Add(node.offset, StreamLength(graph, node.ins[2].name))
        ELSE NaN

RECURSIVE SumOf(_)
SumOf(ds) ==
    IF ds = << >> THEN Dec(0, 0)
    ELSE Add(SumOf(SubSeq(ds, 1, Len(ds) - 1)), ds[Len(ds)])

Times(n, a) == IF a.k = "nan" THEN NaN ELSE Dec(n * a.m, a.e)

\* C4 (as stated): for n >= 1 scenes whose durations are all >= t, the
\* video the crossfade chain produces lasts sum(d_i) - (n - 1) * t.
C4_TotalDuration ==
    (/\ GraphBuilt
     /\ \A j \in 1..Len(Durations) : Geq(Durations[j], transitionDuration))
    => StreamLength(complexFilter, lastVideoOutputTag)
         = Sub(SumOf(Durations), Times(Len(Durations) - 1, transitionDuration))

\* What C5 counts as a failing probe: ffprobe threw, no duration field, or a
\* duration text that holds no number or the number zero.
FailingProbe(p) ==
    \/ p.t # "text"
    \/ parseFloat(p.s).k = "nan"
    \/ parseFloat(p.s).m = 0

\* C5 (as stated): getAudioDuration returns the default 1 for every failing
\* probe and a positive number otherwise.
C5_DefaultOrPositive ==
    probeOut # Pending =>
        IF FailingProbe(probeIn) THEN probeOut = DefaultDuration
        ELSE IsPositive(probeOut)

\* Validation has run to its end in this job.
ValidationDone ==
    \/ pc \in { "writing", "rendering", "endUnlink", "errorUnlink" }
    \/ Settled /\ ~Raised(NoneProvidedError) /\ ~Raised(DirectoryError)

\* What a survivor is compared by: the caller's entry it came from.
EntryOf(v) ==
    IF mode = "scenes"
    THEN [imageFilename |-> v.imageFilename, audioFilename |-> v.audioFilename]
    ELSE v

\* The caller's entries 1..upto that resolve, in the caller's order.
RECURSIVE ResolvableUpTo(_)
ResolvableUpTo(upto) ==
    IF upto = 0 THEN << >>
    ELSE IF Resolvable(upto)
         THEN Append(ResolvableUpTo(upto - 1),
                     IF mode = "scenes" THEN input.list[upto]
                     ELSE IMAGE_DIR \o "/" \o input.list[upto])
    ELSE ResolvableUpTo(upto - 1)

Survivors == [j \in 1..Len(validScenes) |-> EntryOf(validScenes[j])]

\* C6: in both modes the surviving scenes are the resolvable entries of the
\* caller's list in the caller's order, whatever artifacts are missing and
\* in whatever order the checks complete (so with one of n entries
\* unresolvable the job goes on with the other n - 1); while the image loop
\* runs, the survivors are those of the entries already checked.
C6_OrderPreserved ==
    /\ ValidationDone => Survivors = ResolvableUpTo(Len(input.list))
    /\ pc = "loop" => Survivors = ResolvableUpTo(cursor - 1)

\* Three scenes, the second lacks an artifact, the job renders the others.
C6_Witness ==
    /\ mode = "scenes"
    /\ pc = "rendering"
    /\ Len(input.list) = 3
    /\ ~Resolvable(2)
    /\ Survivors = << input.list[1], input.list[3] >>

Outs(graph) == [j \in 1..Len(graph) |-> graph[j].out]

\* C7: in the emitted graph no two nodes produce the same tag, and every
\* tag a node consumes is produced by a node emitted before it.
C7_TagsUniqueProducersFirst ==
    GraphBuilt =>
        /\ \A i, j \in 1..Len(complexFilter) :
             i # j => complexFilter[i].out # complexFilter[j].out
        /\ \A j \in 1..Len(complexFilter) :
             \A l \in 1..Len(complexFilter[j].ins) :
                LET label == complexFilter[j].ins[l]
                IN  ~label.stream =>
                       \E i \in 1..(j - 1) : complexFilter[i].out = label.name

\* A graph of three scenes: two chained crossfades.
C7_Witness ==
    /\ GraphBuilt
    /\ Len(validScenes) = 3
    /\ Len(complexFilter) = 12

Numbered(prefix, n) == [j \in 1..n |-> prefix \o ToString(j - 1)]

\* C8: with n valid scenes the graph has exactly the video producers
\* v_0..v_{n-1} and the audio producers a_0..a_{n-1}, in that order, and one
\* concat node that reads a_0..a_{n-1} in order with n = the number of valid
\* scenes; the image list has one file/duration pair per valid image, in
\* surviving order.
C8_ProducerCounts ==
    /\ GraphBuilt =>
         LET n == Len(validScenes)
             concats == NodesOf(complexFilter, "concat")
         IN  /\ n >= 1
             /\ Outs(NodesOf(complexFilter, "trim")) = Numbered("v", n)
             /\ Outs(NodesOf(complexFilter, "asetpts")) = Numbered("a", n)
             /\ \A j \in 1..n :
                  NodesOf(complexFilter, "trim")[j].duration
                    = validScenes[j].audioDuration
             /\ Len(concats) = 1
             /\ concats[1].n = n
             /\ [j \in 1..Len(concats[1].ins) |-> concats[1].ins[j].name]
                  = Numbered("a", n)
             /\ \A j \in 1..n : ~concats[1].ins[j].stream
    /\ mode = "images" /\ fileContent # << >> =>
         LET n == Len(validScenes)
         IN  /\ n >= 1
             /\ Len(fileContent) = 2 * n
             /\ \A j \in 1..n :
                  /\ fileContent[2 * j - 1].key = "file"
                  /\ fileContent[2 * j - 1].path = validScenes[j]
                  /\ fileContent[2 * j].key = "duration"

C8_Witness ==
    /\ GraphBuilt
    /\ Len(validScenes) = 3
    /\ Len(NodesOf(complexFilter, "asetpts")) = 3

\* C9: the renderer is not started in a job that fails validation, nor when
\* the list file could not be written; a renderer failure is reported only
\* after the renderer was started.
C9_NoRenderBeforeValidation ==
    /\ (Raised(NoneProvidedError) \/ Raised(NoneValidError)) => spawned = 0
    /\ Raised("Failed to write ffmpeg list file: ") => spawned = 0
    /\ spawned >= 1 =>
         /\ ~EmptyInput
         /\ SomeResolvable
         /\ validScenes # << >>
         /\ mode = "images" => listFile # "none"
    /\ (Raised("ffmpeg failed: ") \/ Raised("ffmpeg complex filter failed: "))
         => spawned >= 1

\* The list file could not be written: the job failed, nothing was rendered.
C9_Witness ==
    /\ Settled
    /\ mode = "images"
    /\ Raised("Failed to write ffmpeg list file: ")
    /\ listFile = "none"
    /\ spawned = 0

\* The probe result of the audio file at path p.
ProbeResultAt(p) ==
    probeOf[CHOOSE k \in 1..Len(probeOf) : probeOf[k].path = p].result

OwnDuration(d) ==
    /\ d.audioPath = AUDIO_DIR \o "/" \o d.audioFilename
    /\ d.audioDuration = getAudioDuration(ProbeResultAt(d.audioPath))

\* C10: the graph is built and the renderer started only after every
\* scene's callback has completed, and in every completion order each
\* scene is paired with the duration probed for its own audio file.
C10_BarrierAndPairing ==
    mode = "scenes" =>
        /\ (complexFilter # << >> \/ spawned >= 1 \/ validScenes # << >>)
             => \A k \in 1..Len(taskPc) : taskPc[k] = "done"
        /\ \A k \in 1..Len(sceneDetails) :
             sceneDetails[k] \notin { Pending, Null } =>
                /\ sceneDetails[k].audioFilename = input.list[k].audioFilename
                /\ OwnDuration(sceneDetails[k])
        /\ \A j \in 1..Len(validScenes) : OwnDuration(validScenes[j])

\* The third probe is over while the first callback still awaits its first
\* check and the second awaits its probe.
C10_WitnessInFlight ==
    /\ pc = "awaitAll"
    /\ Len(taskPc) = 3
    /\ taskPc[1] = "accessImage"
    /\ taskPc[2] = "probe"
    /\ taskPc[3] = "done"
    /\ sceneDetails[3] \notin { Pending, Null }
    /\ ProbeResultAt(sceneDetails[3].audioPath) # ProbeResultAt(AudioPath(2))

\* The last signal the command emitted ("" when none).
LastSignal == IF signals = << >> THEN "" ELSE signals[Len(signals)]

\* fs.unlink was called on the list file and the file is still there.
DeletionFailed == unlinkAttempts >= 1 /\ listFile = "written"

\* C11: in compileImagesToVideo the job that has settled after the "end"
\* signal is resolved with the output path and filename, and the job that
\* has settled after the "error" signal is rejected with "ffmpeg failed: "
\* and the renderer's diagnostic, whether or not the list file could be
\* deleted.
C11_CleanupNeverMasks ==
    mode = "images" /\ Settled /\ spawned >= 1 =>
        /\ LastSignal = "end" =>
             /\ outcome.state = "resolved"
             /\ outcome.videoPath = VIDEO_DIR \o "/" \o outputFilename
             /\ outcome.videoFilename = outputFilename
        /\ LastSignal = "error" =>
             /\ outcome.state = "rejected"
             /\ outcome.error = "ffmpeg failed: "
             /\ outcome.detail = Diagnostic
        /\ LastSignal \in { "end", "error" }
        /\ unlinkAttempts = 1

\* C11 witness: the renderer errored, the list file could not be deleted,
\* and the job is rejected with the renderer's error.
C11_Witness ==
    /\ mode = "images"
    /\ Settled
    /\ LastSignal = "error"
    /\ DeletionFailed
    /\ Raised("ffmpeg failed: ")
    /\ outcome.detail = Diagnostic

\* C12: the video tag mapped to the output is the output of the last
\* crossfade node, vt_{n-1}, when n > 1, and v_0 when n = 1; with n = 1 the
\* graph has no crossfade node and the audio concat node has one input.
C12_FinalVideoTag ==
    GraphBuilt =>
        LET n == Len(validScenes)
            fades == NodesOf(complexFilter, "xfade")
            concats == NodesOf(complexFilter, "concat")
        IN  /\ \E j \in 1..Len(complexFilter) :
                 complexFilter[j].out = lastVideoOutputTag
            /\ n = 1 =>
                 /\ lastVideoOutputTag = "v0"
                 /\ fades = << >>
                 /\ Len(concats) = 1
                 /\ Len(concats[1].ins) = 1
                 /\ concats[1].n = 1
            /\ n > 1 =>
                 /\ lastVideoOutputTag = "vt" \o ToString(n - 1)
                 /\ Len(fades) = n - 1
                 /\ lastVideoOutputTag = fades[n - 1].out
                 /\ complexFilter[Len(complexFilter)] = fades[n - 1]

\* C12 witness (scenario A): one valid scene, the graph is built and v0 is
\* what gets mapped.
C12_Witness ==
    /\ GraphBuilt
    /\ pc = "rendering"
    /\ Len(validScenes) = 1
    /\ lastVideoOutputTag = "v0"
    /\ Len(complexFilter) = 4

\* C13: in a compile job of either mode the command is run at most once,
\* also after an "error" signal, and the caller's promise is settled exactly
\* once, with the output path and filename or with one error, in every
\* order of the command's signals.
C13_SettlesOnce ==
    mode \in { "scenes", "images" } =>
        /\ spawned <= 1
        /\ settles <= 1
        /\ Settled <=> settles = 1
        /\ Settled <=> outcome.state # "pending"
        /\ outcome.state = "resolved" =>
             /\ outcome.videoPath = VIDEO_DIR \o "/" \o outputFilename
             /\ outcome.videoFilename = outputFilename
             /\ outcome.error = ""
             /\ LastSignal = "end"
        /\ outcome.state = "rejected" =>
             /\ outcome.error # ""
             /\ outcome.videoPath = ""
        /\ LastSignal = "error" => spawned = 1
        /\ (Raised("ffmpeg failed: ") \/ Raised("ffmpeg complex filter failed: "))
             => LastSignal = "error" /\ spawned = 1

\* C13 witness: the command signalled "error" without a "start" before it;
\* the job is rejected once and the command was run once.
C13_Witness ==
    /\ Settled
    /\ signals = << "error" >>
    /\ spawned = 1
    /\ settles = 1
    /\ outcome.state = "rejected"

ProducerOf(tag) ==
    CHOOSE j \in 1..Len(complexFilter) : complexFilter[j].out = tag

\* C14: whichever scenes were dropped, the command's input at position 2i
\* is the image of the i-th surviving scene and the input at position 2i+1
\* its audio (positions and i counted from 0), and the nodes producing v_i
\* and a_i read exactly these positions.
C14_InputsMatchGraph ==
    GraphBuilt =>
        LET kept == ResolvableUpTo(Len(input.list))
            n == Len(kept)
        IN  /\ Len(inputs) = 2 * n
            /\ \A i \in 0..(n - 1) :
                 /\ inputs[2 * i + 1] = IMAGE_DIR \o "/" \o kept[i + 1].imageFilename
                 /\ inputs[2 * i + 2] = AUDIO_DIR \o "/" \o kept[i + 1].audioFilename
                 /\ \E j \in 1..Len(complexFilter) :
                      complexFilter[j].out = "v" \o ToString(i)
                 /\ \E j \in 1..Len(complexFilter) :
                      complexFilter[j].out = "a" \o ToString(i)
                 /\ LET video == complexFilter[ProducerOf("v" \o ToString(i))]
                        audio == complexFilter[ProducerOf("a" \o ToString(i))]
                    IN  /\ Len(video.ins) = 1
                        /\ ~video.ins[1].stream
                        /\ \E j \in 1..Len(complexFilter) :
                             complexFilter[j].out = video.ins[1].name
                        /\ complexFilter[ProducerOf(video.ins[1].name)].ins
                             = << [stream |-> TRUE,
                                   name |-> ToString(2 * i) \o ":v"] >>
                        /\ audio.ins
                             = << [stream |-> TRUE,
                                   name |-> ToString(2 * i + 1) \o ":a"] >>

\* C14 witness: of three scenes the second is dropped; the third scene's
\* artifacts are inputs 2 and 3 and feed v1 and a1.
C14_Witness ==
    /\ GraphBuilt
    /\ Len(input.list) = 3
    /\ Resolvable(1) /\ ~Resolvable(2) /\ Resolvable(3)
    /\ Len(inputs) = 4
    /\ inputs[3] = IMAGE_DIR \o "/" \o input.list[3].imageFilename
    /\ inputs[4] = AUDIO_DIR \o "/" \o input.list[3].audioFilename
    /\ complexFilter[ProducerOf("a1")].ins[1].name = "3:a"

\* C15: with two story requests in flight, the audio a request's compilation
\* reads for each of its scenes is the audio that request synthesized for
\* the scene.
C15_OwnAudio ==
    mode = "story" =>
        \A r \in Requests :
            requests[r].pc = "responded" /\ requests[r].videoSceneData # << >>
                => requests[r].compiled = requests[r].synthesized

====
